---- MODULE Spec2Model ----
(***************************************************************************)
(* Model of src-tauri/src/query/query.rs (the Symbol conversions, the     *)
(* Expr tree and ExprDFSIterator), of src-tauri/src/scan.rs (scan_dir)    *)
(* and of src-tauri/src/watch.rs (async_watch).                            *)
(*                                                                         *)
(* A String is a sequence of one-character strings.  A reference           *)
(* &'a Expr is the path of the node from the root of the borrowed tree:    *)
(* a sequence over {1, 2}, 1 for the first boxed child and 2 for the       *)
(* second.  An Option is a sequence of length 0 (None) or 1 (Some).        *)
(***************************************************************************)
EXTENDS Integers, Sequences, FiniteSets, TLC

\* ---------------------------------------------------------------- bounds
MaxNodes == 6        \* largest Expr tree drawn, in nodes
MaxLen == 3          \* longest payload drawn for a Symbol under conversion
MaxExtraCalls == 2   \* calls of next() followed after the first None
MaxEntries == 3      \* most directory entries beneath a scanned root
MaxEvents == 5       \* most results the watcher passes to its callback

Iterators == {1, 2}  \* two independent ExprDFSIterator instances

\* ------------------------------------------------------------- strings
Alphabet == {"a", "\"", "%", "_", "\\"}

RECURSIVE StringsOfLen(_)
StringsOfLen(n) ==
    IF n = 0 THEN {<<>>}
    ELSE {Append(s, c) : s \in StringsOfLen(n - 1), c \in Alphabet}

Strings == UNION {StringsOfLen(n) : n \in 0..MaxLen}

\* ------------------------------------------------------------- Symbol
Tag(name) == [kind |-> "Tag", payload |-> name]
InPath(path) == [kind |-> "InPath", payload |-> path]

Symbol == {Tag(s) : s \in Strings} \cup {InPath(s) : s \in Strings}

\* --------------------------------------------------------------- Expr
And(a, b) == [op |-> "And", a |-> a, b |-> b]
Or(a, b) == [op |-> "Or", a |-> a, b |-> b]
Not(a) == [op |-> "Not", a |-> a]
Term(s) == [op |-> "Term", sym |-> s]

\* the leaves the tests build: tag("a"), inpath("1"), ...
TreeLeaves == {Tag(<<"a">>), InPath(<<"a">>)}

RECURSIVE ExprOfSize(_)
ExprOfSize(n) ==
    IF n = 1 THEN {Term(s) : s \in TreeLeaves}
    ELSE {Not(e) : e \in ExprOfSize(n - 1)}
         \cup UNION {{And(l, r), Or(l, r)} :
                       <<l, r>> \in UNION {ExprOfSize(k) \X ExprOfSize(n - 1 - k) :
                                             k \in 1..(n - 2)}}

Expr == UNION {ExprOfSize(n) : n \in 1..MaxNodes}

\* the node a reference points at
RECURSIVE Deref(_, _)
Deref(t, p) ==
    IF p = <<>> THEN t
    ELSE IF Head(p) = 1 THEN Deref(t.a, Tail(p)) ELSE Deref(t.b, Tail(p))

\* every reference into the tree
RECURSIVE Refs(_)
Refs(t) ==
    CASE t.op \in {"And", "Or"} ->
           {<<>>} \cup {<<1>> \o p : p \in Refs(t.a)} \cup {<<2>> \o p : p \in Refs(t.b)}
      [] t.op = "Not" -> {<<>>} \cup {<<1>> \o p : p \in Refs(t.a)}
      [] OTHER -> {<<>>}

Size(t) == Cardinality(Refs(t))

\* ------------------------------------------------- escaping (helpers::sql)
DQ == "\""
BS == "\\"

\* helpers::sql::escape_fts5_string: every double quote is doubled
RECURSIVE escape_fts5_string(_)
escape_fts5_string(text) ==
    IF text = <<>> THEN <<>>
    ELSE (IF Head(text) = DQ THEN <<DQ, DQ>> ELSE <<Head(text)>>)
         \o escape_fts5_string(Tail(text))

\* helpers::sql::escape_like_pattern: '%', '_' and the escape character
\* are prefixed by the escape character
RECURSIVE escape_like_pattern(_, _)
escape_like_pattern(text, escape_char) ==
    IF text = <<>> THEN <<>>
    ELSE (IF Head(text) \in {"%", "_", escape_char}
          THEN <<escape_char, Head(text)>>
          ELSE <<Head(text)>>)
         \o escape_like_pattern(Tail(text), escape_char)

\* ------------------------------------------------- Symbol conversions
Ok(s) == [ok |-> TRUE, val |-> s]
Err(e) == [ok |-> FALSE, err |-> e]

QueryConversionError == {"NoAssociatedFTSString", "NoAssociatedWhereClause"}

\* the literal parts of the two format! strings
FtsPrefix == <<"t", "a", "g", "s", ":", DQ>>
FtsSuffix == <<DQ>>
WherePrefix == <<"p", "a", "t", "h", " ", "L", "I", "K", "E", " ", "'">>
WhereSuffix == <<"'", " ", "E", "S", "C", "A", "P", "E", " ", "'", BS, "'">>

\* mutant: the tag name is escaped a second time
to_fts_string_twice(self) ==
    IF self.kind = "Tag"
    THEN Ok(FtsPrefix \o escape_fts5_string(escape_fts5_string(self.payload)) \o FtsSuffix)
    ELSE Err("NoAssociatedFTSString")

\* mutant: a path is rendered as a full-text string too
to_fts_string_any(self) ==
    Ok(FtsPrefix \o escape_fts5_string(self.payload) \o FtsSuffix)

\* mutant: the error of the other conversion is returned for a path
to_fts_string_wrong_err(self) ==
    IF self.kind = "Tag"
    THEN Ok(FtsPrefix \o escape_fts5_string(self.payload) \o FtsSuffix)
    ELSE Err("NoAssociatedWhereClause")

\* Symbol::to_fts_string
to_fts_string(self) ==
    IF self.kind = "Tag"
    THEN Ok(FtsPrefix \o escape_fts5_string(self.payload) \o FtsSuffix)
    ELSE Err("NoAssociatedFTSString")

\* mutant: a tag is rendered as a LIKE clause too
to_where_clause_any(self) ==
    Ok(WherePrefix \o escape_like_pattern(self.payload, BS) \o WhereSuffix)

\* Symbol::to_where_clause
to_where_clause(self) ==
    IF self.kind = "Tag"
    THEN Err("NoAssociatedWhereClause")
    ELSE Ok(WherePrefix \o escape_like_pattern(self.payload, BS) \o WhereSuffix)

\* ------------------------------------------------------------------ state
VARIABLES
    tree,             \* the Expr the iterators borrow
    remaining_nodes,  \* ExprDFSIterator.remaining_nodes, per iterator
    returned,         \* per iterator, the values next() returned so far
    fts_result,       \* what to_fts_string returned for the leaf, once called
    where_result,     \* what to_where_clause returned for the leaf, once called
    fs,               \* the file system beneath the path given to scan_dir
    scan_pc,          \* where scan_dir is: "start", "loop" or "done"
    items,            \* scan_dir's items
    unscanned_dirs,   \* scan_dir's unscanned_dirs
    scan_result,      \* what scan_dir returned, once it has
    pushed,           \* every path pushed onto unscanned_dirs so far
    popped,           \* every path popped from unscanned_dirs so far
    watch_pc,         \* where async_watch is
    chan,             \* the results in the unbounded channel
    passed,           \* every result the watcher passed to the callback
    received          \* every result rx.next() gave to the loop

queryVars == <<tree, remaining_nodes, returned, fts_result, where_result>>
scanVars == <<fs, scan_pc, items, unscanned_dirs, scan_result, pushed, popped>>
watchVars == <<watch_pc, chan, passed, received>>

vars == <<queryVars, scanVars, watchVars>>

None == <<>>
Some(x) == <<x>>

\* ExprDFSIterator::new
new(expr_ref) == <<expr_ref>>

\* mutant: the children go to the front of the queue (a stack)
PushChildrenFront(q, t, p) ==
    CASE Deref(t, p).op \in {"And", "Or"} -> <<p \o <<1>>, p \o <<2>>>> \o q
      [] Deref(t, p).op = "Not" -> <<p \o <<1>>>> \o q
      [] OTHER -> q

\* mutant: b is pushed before a
PushChildrenSwapped(q, t, p) ==
    CASE Deref(t, p).op \in {"And", "Or"} -> Append(Append(q, p \o <<2>>), p \o <<1>>)
      [] Deref(t, p).op = "Not" -> Append(q, p \o <<1>>)
      [] OTHER -> q

\* mutant: the arm for Not pushes nothing
PushChildrenDropNot(q, t, p) ==
    CASE Deref(t, p).op \in {"And", "Or"} -> Append(Append(q, p \o <<1>>), p \o <<2>>)
      [] OTHER -> q

\* mutant: the child of Not is pushed twice
PushChildrenDup(q, t, p) ==
    CASE Deref(t, p).op \in {"And", "Or"} -> Append(Append(q, p \o <<1>>), p \o <<2>>)
      [] Deref(t, p).op = "Not" -> Append(Append(q, p \o <<1>>), p \o <<1>>)
      [] OTHER -> q

\* the match of next(): what is pushed on the queue after the pop
PushChildren(q, t, p) ==
    CASE Deref(t, p).op \in {"And", "Or"} -> Append(Append(q, p \o <<1>>), p \o <<2>>)
      [] Deref(t, p).op = "Not" -> Append(q, p \o <<1>>)
      [] OTHER -> q

\* mutant: the push order depends on the instance
next_by_instance(i) ==
    /\ Len(returned[i]) < Size(tree) + MaxExtraCalls
    /\ IF remaining_nodes[i] = <<>>
       THEN /\ returned' = [returned EXCEPT ![i] = Append(@, None)]
            /\ UNCHANGED remaining_nodes
       ELSE LET next_node == Head(remaining_nodes[i]) IN
            /\ remaining_nodes' =
                 [remaining_nodes EXCEPT ![i] =
                    IF i = 1 THEN PushChildren(Tail(@), tree, next_node)
                    ELSE PushChildrenSwapped(Tail(@), tree, next_node)]
            /\ returned' = [returned EXCEPT ![i] = Append(@, Some(next_node))]
    /\ UNCHANGED <<tree, fts_result, where_result, scanVars, watchVars>>

\* mutant: every instance pops and pushes one queue, that of iterator 1
next_shared(i) ==
    /\ Len(returned[i]) < Size(tree) + MaxExtraCalls
    /\ IF remaining_nodes[1] = <<>>
       THEN /\ returned' = [returned EXCEPT ![i] = Append(@, None)]
            /\ UNCHANGED remaining_nodes
       ELSE LET next_node == Head(remaining_nodes[1]) IN
            /\ remaining_nodes' =
                 [remaining_nodes EXCEPT ![1] = PushChildren(Tail(@), tree, next_node)]
            /\ returned' = [returned EXCEPT ![i] = Append(@, Some(next_node))]
    /\ UNCHANGED <<tree, fts_result, where_result, scanVars, watchVars>>

\* mutant: an exhausted iterator starts over at the root
next_restart(i) ==
    /\ Len(returned[i]) < Size(tree) + MaxExtraCalls
    /\ IF remaining_nodes[i] = <<>>
       THEN /\ returned' = [returned EXCEPT ![i] = Append(@, None)]
            /\ remaining_nodes' = [remaining_nodes EXCEPT ![i] = <<<<>>>>]
       ELSE LET next_node == Head(remaining_nodes[i]) IN
            /\ remaining_nodes' =
                 [remaining_nodes EXCEPT ![i] = PushChildren(Tail(@), tree, next_node)]
            /\ returned' = [returned EXCEPT ![i] = Append(@, Some(next_node))]
    /\ UNCHANGED <<tree, fts_result, where_result, scanVars, watchVars>>

\* Iterator::next for ExprDFSIterator
next(i) ==
    /\ Len(returned[i]) < Size(tree) + MaxExtraCalls
    /\ IF remaining_nodes[i] = <<>>
       THEN /\ returned' = [returned EXCEPT ![i] = Append(@, None)]
            /\ UNCHANGED remaining_nodes
       ELSE LET next_node == Head(remaining_nodes[i]) IN
            /\ remaining_nodes' =
                 [remaining_nodes EXCEPT ![i] = PushChildren(Tail(@), tree, next_node)]
            /\ returned' = [returned EXCEPT ![i] = Append(@, Some(next_node))]
    /\ UNCHANGED <<tree, fts_result, where_result, scanVars, watchVars>>

\* a caller converts the leaf it holds
call_to_fts_string ==
    /\ tree.op = "Term"
    /\ fts_result' = Some(to_fts_string(tree.sym))
    /\ UNCHANGED <<tree, remaining_nodes, returned, where_result, scanVars, watchVars>>

call_to_where_clause ==
    /\ tree.op = "Term"
    /\ where_result' = Some(to_where_clause(tree.sym))
    /\ UNCHANGED <<tree, remaining_nodes, returned, fts_result, scanVars, watchVars>>

\* ------------------------------------------------------ the file system
\* An entry is a file (anything DirEntry::metadata does not report as a
\* directory) or a directory with its entries in read_dir order.  st says
\* what fails for it: "entry_err" the Result read_dir's iterator yields
\* for it, "meta_err" its metadata(), "list_err" fs::read_dir on it.
\* A path is the sequence of entry indexes from the scanned root.
File(st) == [kind |-> "file", st |-> st, sub |-> <<>>]
Dir(st, sub) == [kind |-> "dir", st |-> st, sub |-> sub]

FileStatus == {"ok", "meta_err", "entry_err"}
DirStatus == {"ok", "meta_err", "entry_err", "list_err"}

RECURSIVE FsForests(_), FsTrees(_)
FsForests(n) ==
    IF n = 0 THEN {<<>>}
    ELSE UNION {{<<t>> \o f : t \in FsTrees(k), f \in FsForests(n - k)} : k \in 1..n}
FsTrees(k) ==
    (IF k = 1 THEN {File(st) : st \in FileStatus} ELSE {})
    \cup {Dir(st, f) : st \in DirStatus, f \in FsForests(k - 1)}

\* what the path given to scan_dir may name
FsRoots ==
    {File(st) : st \in {"ok", "meta_err"}}
    \cup {Dir(st, f) : st \in {"ok", "meta_err", "list_err"},
                       f \in UNION {FsForests(n) : n \in 0..MaxEntries}}

RECURSIVE FsNode(_, _)
FsNode(root, p) == IF p = <<>> THEN root ELSE FsNode(root.sub[Head(p)], Tail(p))

\* the paths of all entries beneath a node
RECURSIVE FsPaths(_)
FsPaths(node) ==
    UNION {{<<k>>} \cup {<<k>> \o p : p \in FsPaths(node.sub[k])} : k \in 1..Len(node.sub)}

\* ------------------------------------------------------------ scan_dir
ScanError == {"NotADirectory", "IOError"}

\* fs::read_dir(p) followed by .flatten(): the entries whose Result is Ok
DirIter(root, p) ==
    LET sub == FsNode(root, p).sub IN
    SelectSeq([k \in 1..Len(sub) |-> [path |-> p \o <<k>>, node |-> sub[k]]],
              LAMBDA e : e.node.st # "entry_err")

\* mutant: a directory is also pushed onto items
RECURSIVE classify_dir_items_all(_, _, _)
classify_dir_items_all(dir_iter, its, uns) ==
    IF dir_iter = <<>> THEN [items |-> its, unscanned_dirs |-> uns]
    ELSE LET entry == Head(dir_iter) IN
         IF entry.node.st # "meta_err"
         THEN IF entry.node.kind = "dir"
              THEN classify_dir_items_all(Tail(dir_iter), Append(its, entry.path),
                                          Append(uns, entry.path))
              ELSE classify_dir_items_all(Tail(dir_iter), Append(its, entry.path), uns)
         ELSE classify_dir_items_all(Tail(dir_iter), its, uns)

\* mutant: a directory is pushed onto unscanned_dirs twice
RECURSIVE classify_dir_items_twice(_, _, _)
classify_dir_items_twice(dir_iter, its, uns) ==
    IF dir_iter = <<>> THEN [items |-> its, unscanned_dirs |-> uns]
    ELSE LET entry == Head(dir_iter) IN
         IF entry.node.st # "meta_err"
         THEN IF entry.node.kind = "dir"
              THEN classify_dir_items_twice(Tail(dir_iter), its,
                                            Append(Append(uns, entry.path), entry.path))
              ELSE classify_dir_items_twice(Tail(dir_iter), Append(its, entry.path), uns)
         ELSE classify_dir_items_twice(Tail(dir_iter), its, uns)

\* classify_dir_items: the for loop over the entries
RECURSIVE classify_dir_items(_, _, _)
classify_dir_items(dir_iter, its, uns) ==
    IF dir_iter = <<>> THEN [items |-> its, unscanned_dirs |-> uns]
    ELSE LET entry == Head(dir_iter) IN
         IF entry.node.st # "meta_err"
         THEN IF entry.node.kind = "dir"
              THEN classify_dir_items(Tail(dir_iter), its, Append(uns, entry.path))
              ELSE classify_dir_items(Tail(dir_iter), Append(its, entry.path), uns)
         ELSE classify_dir_items(Tail(dir_iter), its, uns)

\* scan_dir up to the while loop: the checks of the root and its listing
scan_start ==
    /\ scan_pc = "start"
    /\ IF fs.st = "meta_err"
       THEN /\ scan_result' = Some(Err("IOError"))
            /\ scan_pc' = "done"
            /\ UNCHANGED <<items, unscanned_dirs, pushed>>
       ELSE IF fs.kind # "dir"
       THEN /\ scan_result' = Some(Err("NotADirectory"))
            /\ scan_pc' = "done"
            /\ UNCHANGED <<items, unscanned_dirs, pushed>>
       ELSE IF fs.st = "list_err"
       THEN /\ scan_result' = Some(Err("IOError"))
            /\ scan_pc' = "done"
            /\ UNCHANGED <<items, unscanned_dirs, pushed>>
       ELSE LET c == classify_dir_items(DirIter(fs, <<>>), <<>>, <<>>) IN
            /\ items' = c.items
            /\ unscanned_dirs' = c.unscanned_dirs
            /\ pushed' = c.unscanned_dirs
            /\ scan_pc' = "loop"
            /\ UNCHANGED scan_result
    /\ UNCHANGED <<fs, popped, queryVars, watchVars>>

\* mutant: a subdirectory that cannot be listed ends the scan with an error
scan_loop_strict ==
    /\ scan_pc = "loop"
    /\ unscanned_dirs # <<>>
    /\ LET dir == unscanned_dirs[Len(unscanned_dirs)]
           rest == SubSeq(unscanned_dirs, 1, Len(unscanned_dirs) - 1) IN
       /\ popped' = Append(popped, dir)
       /\ IF FsNode(fs, dir).st # "list_err"
          THEN LET c == classify_dir_items(DirIter(fs, dir), items, rest) IN
               /\ items' = c.items
               /\ unscanned_dirs' = c.unscanned_dirs
               /\ pushed' = pushed \o SubSeq(c.unscanned_dirs, Len(rest) + 1,
                                             Len(c.unscanned_dirs))
               /\ UNCHANGED <<scan_pc, scan_result>>
          ELSE /\ unscanned_dirs' = rest
               /\ scan_result' = Some(Err("IOError"))
               /\ scan_pc' = "done"
               /\ UNCHANGED <<items, pushed>>
    /\ UNCHANGED <<fs, queryVars, watchVars>>

\* one iteration of the while loop
scan_loop ==
    /\ scan_pc = "loop"
    /\ unscanned_dirs # <<>>
    /\ LET dir == unscanned_dirs[Len(unscanned_dirs)]
           rest == SubSeq(unscanned_dirs, 1, Len(unscanned_dirs) - 1) IN
       /\ popped' = Append(popped, dir)
       /\ IF FsNode(fs, dir).st # "list_err"
          THEN LET c == classify_dir_items(DirIter(fs, dir), items, rest) IN
               /\ items' = c.items
               /\ unscanned_dirs' = c.unscanned_dirs
               /\ pushed' = pushed \o SubSeq(c.unscanned_dirs, Len(rest) + 1,
                                             Len(c.unscanned_dirs))
          ELSE /\ unscanned_dirs' = rest
               /\ UNCHANGED <<items, pushed>>
    /\ UNCHANGED <<fs, scan_pc, scan_result, queryVars, watchVars>>

\* the loop is left and Ok(items) returned
scan_return ==
    /\ scan_pc = "loop"
    /\ unscanned_dirs = <<>>
    /\ scan_result' = Some(Ok(items))
    /\ scan_pc' = "done"
    /\ UNCHANGED <<fs, items, unscanned_dirs, pushed, popped, queryVars, watchVars>>

\* --------------------------------------------------------- async_watch
\* A notify::Result<Event> the watcher hands to its event handler: the
\* id tells the results apart, ok says whether it is Ok(event) or Err.
WatchResult(id, ok) == [id |-> id, ok |-> ok]

\* async_watch up to the loop: the channel, RecommendedWatcher::new and
\* watcher.watch, each of which may return early with `?`
watch_start ==
    /\ watch_pc = "start"
    /\ \E started \in BOOLEAN :
          watch_pc' = IF started THEN "loop" ELSE "returned"
    /\ UNCHANGED <<chan, passed, received, queryVars, scanVars>>

\* the event handler: block_on(tx.send(res)).unwrap(), run by the
\* watcher while it is alive; a send on an unbounded channel never waits
callback ==
    /\ watch_pc = "loop"
    /\ Len(passed) < MaxEvents
    /\ \E ok \in BOOLEAN :
          LET res == WatchResult(Len(passed) + 1, ok) IN
          /\ passed' = Append(passed, res)
          /\ chan' = Append(chan, res)
    /\ UNCHANGED <<watch_pc, received, queryVars, scanVars>>

\* one iteration of `while let Some(res) = rx.next().await`: res.unwrap()
\* panics on an Err, and the unwinding drops rx with what it still holds.
\* rx.next() never gives None here: tx lives in the handler, which the
\* watcher owns until async_watch is left.
loop_iteration ==
    /\ watch_pc = "loop"
    /\ chan # <<>>
    /\ received' = Append(received, Head(chan))
    /\ IF Head(chan).ok
       THEN /\ chan' = Tail(chan)
            /\ UNCHANGED watch_pc
       ELSE /\ chan' = <<>>
            /\ watch_pc' = "panicked"
    /\ UNCHANGED <<passed, queryVars, scanVars>>

\* ------------------------------------- the parts of the state not in use
QueryIdle ==
    /\ tree = Term(Tag(<<>>))
    /\ remaining_nodes = [i \in Iterators |-> <<>>]
    /\ returned = [i \in Iterators |-> <<>>]
    /\ fts_result = None
    /\ where_result = None

ScanIdle ==
    /\ fs = File("ok")
    /\ scan_pc = "done"
    /\ items = <<>>
    /\ unscanned_dirs = <<>>
    /\ scan_result = None
    /\ pushed = <<>>
    /\ popped = <<>>

WatchIdle ==
    /\ watch_pc = "returned"
    /\ chan = <<>>
    /\ passed = <<>>
    /\ received = <<>>

\* ----------------------------------------- traversal of a borrowed tree
Init ==
    /\ tree \in Expr
    /\ remaining_nodes = [i \in Iterators |-> new(<<>>)]
    /\ returned = [i \in Iterators |-> <<>>]
    /\ fts_result = None
    /\ where_result = None
    /\ ScanIdle
    /\ WatchIdle

Next == \E i \in Iterators : next(i)

Spec == Init /\ [][Next]_vars

\* ------------------------------------------------ conversion of a leaf
InitConv ==
    /\ tree \in {Term(s) : s \in Symbol}
    /\ remaining_nodes = [i \in Iterators |-> new(<<>>)]
    /\ returned = [i \in Iterators |-> <<>>]
    /\ fts_result = None
    /\ where_result = None
    /\ ScanIdle
    /\ WatchIdle

NextConv == call_to_fts_string \/ call_to_where_clause

SpecConv == InitConv /\ [][NextConv]_vars

\* ------------------------------------------------- a call of scan_dir
InitScan ==
    /\ fs \in FsRoots
    /\ scan_pc = "start"
    /\ items = <<>>
    /\ unscanned_dirs = <<>>
    /\ scan_result = None
    /\ pushed = <<>>
    /\ popped = <<>>
    /\ QueryIdle
    /\ WatchIdle

NextScan == scan_start \/ scan_loop \/ scan_return

SpecScan == InitScan /\ [][NextScan]_vars

\* scan_dir is straight-line code run by its caller: it keeps stepping
SpecScanFair == SpecScan /\ WF_vars(NextScan)

\* ----------------------------------------------- a call of async_watch
InitWatch ==
    /\ watch_pc = "start"
    /\ chan = <<>>
    /\ passed = <<>>
    /\ received = <<>>
    /\ QueryIdle
    /\ ScanIdle

NextWatch == watch_start \/ callback \/ loop_iteration

SpecWatch == InitWatch /\ [][NextWatch]_vars

\* ------------------------------------------------------------ helpers
\* the nodes an iterator yielded, in order (the Some values)
RECURSIVE SomeValues(_)
SomeValues(rs) ==
    IF rs = <<>> THEN <<>>
    ELSE (IF Head(rs) = None THEN <<>> ELSE <<Head(rs)[1]>>) \o SomeValues(Tail(rs))

Yielded(i) == SomeValues(returned[i])

Range(s) == {s[k] : k \in 1..Len(s)}

Exhausted(i) == None \in Range(returned[i])

IsPrefix(s, t) == Len(s) <= Len(t) /\ SubSeq(t, 1, Len(s)) = s

OpsOf(t) == {Deref(t, p).op : p \in Refs(t)}

Parent(p) == SubSeq(p, 1, Len(p) - 1)

\* the sequence an iterator yields when it is the only one running
RECURSIVE Drain(_, _)
Drain(q, t) ==
    IF q = <<>> THEN <<>>
    ELSE <<Head(q)>> \o Drain(PushChildren(Tail(q), t, Head(q)), t)

RunAlone(t) == Drain(new(<<>>), t)

\* ----------------------------------------------------------------- C1
\* C1: an iterator never yields a node twice, yields only nodes of the
\* tree, and has yielded every node of the tree once it returns None.
C1_EveryNodeExactlyOnce ==
    \A i \in Iterators :
        LET y == Yielded(i) IN
        /\ \A j, k \in 1..Len(y) : j # k => y[j] # y[k]
        /\ Range(y) \subseteq Refs(tree)
        /\ Exhausted(i) => Range(y) = Refs(tree)

C1_Witness ==
    /\ Exhausted(1)
    /\ OpsOf(tree) = {"And", "Or", "Not", "Term"}
    /\ Len(Yielded(1)) = Size(tree)

\* ----------------------------------------------------------------- C2
\* C2: depth-first order: once an And/Or node is yielded, no node of its
\* right subtree is yielded before a node of its left subtree.
C2_DepthFirstOrder ==
    \A i \in Iterators :
        LET y == Yielded(i) IN
        \A n \in Range(y) :
            Deref(tree, n).op \in {"And", "Or"} =>
                \A j, k \in 1..Len(y) :
                    (IsPrefix(n \o <<2>>, y[j]) /\ IsPrefix(n \o <<1>>, y[k])) => k < j

\* ----------------------------------------------------------------- C3
\* C3: breadth-first order: the root is yielded first and the depths of
\* the yielded nodes never decrease.
C3_BreadthFirstOrder ==
    \A i \in Iterators :
        LET y == Yielded(i) IN
        /\ Len(y) > 0 => y[1] = <<>>
        /\ \A j, k \in 1..Len(y) : j < k => Len(y[j]) <= Len(y[k])

C3_Witness ==
    /\ Exhausted(1)
    /\ \E p \in Refs(tree) : Len(p) = 2 /\ <<2>> \in Refs(tree)
    /\ Deref(tree, <<1>>).op \in {"And", "Or", "Not"}

\* ----------------------------------------------------------------- C4
\* C4: the children of an And/Or node are enqueued left then right, next
\* to each other, and so are yielded left then right, consecutively.
C4_LeftThenRightAdjacent ==
    \A i \in Iterators :
        LET s == Yielded(i) \o remaining_nodes[i] IN
        \A k \in 1..Len(s) :
            (s[k] # <<>> /\ Deref(tree, Parent(s[k])).op \in {"And", "Or"}) =>
                IF s[k][Len(s[k])] = 1
                THEN k < Len(s) /\ s[k + 1] = Parent(s[k]) \o <<2>>
                ELSE k > 1 /\ s[k - 1] = Parent(s[k]) \o <<1>>

C4_Witness ==
    /\ Exhausted(2)
    /\ \E p \in Refs(tree) :
          /\ Len(p) >= 1
          /\ Deref(tree, p).op \in {"And", "Or"}
          /\ Deref(tree, Parent(p)).op \in {"And", "Or"}

C10_Interleaving ==
    /\ [](\A i \in Iterators : IsPrefix(Yielded(i), RunAlone(tree)))
    /\ [](\A i \in Iterators : Exhausted(i) => Yielded(i) = RunAlone(tree))
    /\ [][/\ tree' = tree
          /\ \A i \in Iterators :
                returned'[i] # returned[i] =>
                    \A j \in Iterators \ {i} :
                        /\ remaining_nodes'[j] = remaining_nodes[j]
                        /\ returned'[j] = returned[j]]_vars

C10_Witness ==
    /\ Len(Yielded(1)) >= 3
    /\ Len(Yielded(2)) >= 1
    /\ Len(Yielded(2)) < Len(Yielded(1))
    /\ ~Exhausted(1)

\* ------------------------------------------------- conversion helpers
Called(r) == r # None
Results == {r[1] : r \in {x \in {fts_result, where_result} : Called(x)}}

\* reading an escaped full-text string back: "" is one quote, a lone
\* quote would end the string
RECURSIVE UnescapeFts(_)
UnescapeFts(s) ==
    IF s = <<>> THEN <<>>
    ELSE IF Head(s) # DQ THEN <<Head(s)>> \o UnescapeFts(Tail(s))
    ELSE IF Len(s) >= 2 /\ s[2] = DQ THEN <<DQ>> \o UnescapeFts(Tail(Tail(s)))
    ELSE <<"END">> \o UnescapeFts(Tail(s))

\* reading a LIKE pattern back under ESCAPE esc: esc c is the literal c,
\* a bare '%' or '_' is a wildcard
RECURSIVE UnescapeLike(_, _)
UnescapeLike(s, esc) ==
    IF s = <<>> THEN <<>>
    ELSE IF Head(s) = esc
         THEN IF Len(s) >= 2 THEN <<s[2]>> \o UnescapeLike(Tail(Tail(s)), esc)
              ELSE <<"DANGLING">>
    ELSE IF Head(s) \in {"%", "_"} THEN <<"WILDCARD">> \o UnescapeLike(Tail(s), esc)
    ELSE <<Head(s)>> \o UnescapeLike(Tail(s), esc)

Count(s, cs) == Cardinality({k \in 1..Len(s) : s[k] \in cs})

C9_EscapedOnceAtLeaf ==
    /\ [](Called(fts_result) /\ fts_result[1].ok =>
            LET v == fts_result[1].val
                n == tree.sym.payload
                body == SubSeq(v, Len(FtsPrefix) + 1, Len(v) - Len(FtsSuffix)) IN
            /\ Len(v) >= Len(FtsPrefix) + Len(FtsSuffix)
            /\ v = FtsPrefix \o body \o FtsSuffix
            /\ UnescapeFts(body) = n
            /\ Len(body) = Len(n) + Count(n, {DQ}))
    /\ [](Called(where_result) /\ where_result[1].ok =>
            LET v == where_result[1].val
                n == tree.sym.payload
                body == SubSeq(v, Len(WherePrefix) + 1, Len(v) - Len(WhereSuffix)) IN
            /\ Len(v) >= Len(WherePrefix) + Len(WhereSuffix)
            /\ v = WherePrefix \o body \o WhereSuffix
            /\ UnescapeLike(body, BS) = n
            /\ Len(body) = Len(n) + Count(n, {"%", "_", BS}))
    /\ [][tree' = tree]_vars

C9_Witness ==
    /\ tree.sym.kind = "Tag"
    /\ Called(fts_result)
    /\ Count(tree.sym.payload, {DQ}) >= 2
    /\ Count(tree.sym.payload, {"a", "%", "_", BS}) >= 1

\* ---------------------------------------------------------------- C14
\* C14: of the two conversions of a Symbol exactly one succeeds, whatever
\* the payload: a Tag gives Ok from to_fts_string and
\* Err(NoAssociatedWhereClause) from to_where_clause, an InPath gives Ok
\* from to_where_clause and Err(NoAssociatedFTSString) from to_fts_string.
C14_ExactlyOneConversion ==
    LET kind == tree.sym.kind IN
    /\ Called(fts_result) =>
          /\ kind = "Tag" => fts_result[1].ok
          /\ kind = "InPath" => fts_result[1] = Err("NoAssociatedFTSString")
    /\ Called(where_result) =>
          /\ kind = "InPath" => where_result[1].ok
          /\ kind = "Tag" => where_result[1] = Err("NoAssociatedWhereClause")
    /\ (Called(fts_result) /\ Called(where_result)) =>
          fts_result[1].ok # where_result[1].ok

C14_Witness ==
    /\ tree.sym.kind = "InPath"
    /\ Len(tree.sym.payload) >= 2
    /\ Called(fts_result) /\ Called(where_result)
    /\ ~fts_result[1].ok

\* ---------------------------------------------------------------- C15
\* C15: for a tree of N nodes the first N calls of next() return Some,
\* every later call returns None, and from the first None on the queue is
\* empty and a call enqueues nothing.
C15_TerminatesAndStays ==
    /\ [](\A i \in Iterators :
            /\ \A k \in 1..Len(returned[i]) :
                  (k <= Size(tree)) <=> (returned[i][k] # None)
            /\ Exhausted(i) => remaining_nodes[i] = <<>>)
    /\ [][\A i \in Iterators :
            Exhausted(i) =>
                /\ remaining_nodes'[i] = <<>>
                /\ (returned'[i] # returned[i] => returned'[i] = Append(returned[i], None))]_vars

C15_Witness ==
    /\ Size(tree) >= 5
    /\ Len(returned[1]) = Size(tree) + 2
    /\ returned[1][Size(tree) + 1] = None
    /\ returned[1][Size(tree) + 2] = None

\* ---------------------------------------------------------------- C16
\* C16: the queue holds no node twice and no yielded node; the yielded
\* nodes, the queued nodes and the proper descendants of the queued nodes
\* partition the nodes of the tree; a node enters the queue only in the
\* step that yields its parent; the depths of the queued nodes never
\* decrease from front to back and differ by at most one.
ProperDescendants(t, p) == {r \in Refs(t) : IsPrefix(p, r) /\ r # p}

C16_QueueInvariant ==
    /\ [](\A i \in Iterators :
            LET q == remaining_nodes[i]
                y == Yielded(i)
                below == UNION {ProperDescendants(tree, q[k]) : k \in 1..Len(q)} IN
            /\ \A j, k \in 1..Len(q) : j # k => q[j] # q[k]
            /\ Range(q) \cap Range(y) = {}
            /\ Range(q) \cap below = {}
            /\ Range(y) \cap below = {}
            /\ Range(y) \cup Range(q) \cup below = Refs(tree)
            /\ \A j, k \in 1..Len(q) : j < k => Len(q[j]) <= Len(q[k])
            /\ \A j, k \in 1..Len(q) : Len(q[k]) - Len(q[j]) \in {-1, 0, 1})
    /\ [][\A i \in Iterators :
            \A p \in Range(remaining_nodes'[i]) \ Range(remaining_nodes[i]) :
                /\ p # <<>>
                /\ Len(returned'[i]) = Len(returned[i]) + 1
                /\ returned'[i][Len(returned'[i])] = Some(Parent(p))]_vars

C16_Witness ==
    /\ Len(remaining_nodes[1]) >= 3
    /\ Len(Yielded(1)) >= 2
    /\ \E j, k \in 1..Len(remaining_nodes[1]) :
          Len(remaining_nodes[1][j]) < Len(remaining_nodes[1][k])

\* -------------------------------------------------------- scan helpers
Occurrences(seq, x) == Cardinality({k \in 1..Len(seq) : seq[k] = x})

\* every directory between the root and the entry (both excluded) can be
\* entered: its entry, its metadata and its listing are all readable
AncestorsOk(p) ==
    \A k \in 1..(Len(p) - 1) : FsNode(fs, SubSeq(p, 1, k)).st = "ok"

ScanDone == scan_pc = "done" /\ scan_result # None

\* the entries scan_dir comes across and can classify
Seen == {p \in FsPaths(fs) : AncestorsOk(p) /\ FsNode(fs, p).st \notin {"entry_err", "meta_err"}}
SeenFiles == {p \in Seen : FsNode(fs, p).kind = "file"}
SeenDirs == {p \in Seen : FsNode(fs, p).kind = "dir"}

\* ---------------------------------------------------------------- C13
\* C13 as stated: on a directory scan_dir returns Ok and the list holds,
\* exactly once, every non-directory entry beneath it that lies behind
\* readable subdirectories, and no directory.
C13_EveryFileListed ==
    (ScanDone /\ fs.kind = "dir" /\ fs.st = "ok") =>
        /\ scan_result[1].ok
        /\ \A p \in FsPaths(fs) :
              (AncestorsOk(p) /\ FsNode(fs, p).st # "entry_err") =>
                  IF FsNode(fs, p).kind = "file"
                  THEN Occurrences(scan_result[1].val, p) = 1
                  ELSE Occurrences(scan_result[1].val, p) = 0

\* C13 as amended: on a directory whose listing can be read scan_dir
\* returns Ok and the list holds, exactly once, every non-directory entry
\* whose entry and metadata can be read and that lies behind readable
\* subdirectories, and nothing else.
C13_EveryReadableFileListed ==
    (ScanDone /\ fs.kind = "dir" /\ fs.st = "ok") =>
        /\ scan_result[1].ok
        /\ Range(scan_result[1].val) = SeenFiles
        /\ \A p \in SeenFiles : Occurrences(scan_result[1].val, p) = 1

C13_Witness ==
    /\ ScanDone
    /\ scan_result[1].ok
    /\ Len(scan_result[1].val) >= 2
    /\ \E p \in Range(scan_result[1].val) : Len(p) >= 2

\* ---------------------------------------------------------------- C17
\* C17: scan_dir returns Err only for the root (IOError when its metadata
\* or its listing cannot be read, NotADirectory when it is not a
\* directory), with no items collected; failures beneath the root are
\* skipped and the result is Ok with the items of everything else.
C17_ErrorsOnlyForRoot ==
    ScanDone =>
        /\ fs.st = "meta_err" => scan_result[1] = Err("IOError")
        /\ (fs.st # "meta_err" /\ fs.kind # "dir") => scan_result[1] = Err("NotADirectory")
        /\ (fs.kind = "dir" /\ fs.st = "list_err") => scan_result[1] = Err("IOError")
        /\ ~scan_result[1].ok => (items = <<>> /\ pushed = <<>>)
        /\ (fs.kind = "dir" /\ fs.st = "ok") =>
              /\ scan_result[1].ok
              /\ scan_result[1].val = items
              /\ \A p \in FsPaths(fs) :
                    (AncestorsOk(p) /\ FsNode(fs, p) = File("ok")) =>
                        p \in Range(scan_result[1].val)

C17_Witness ==
    /\ ScanDone
    /\ scan_result[1].ok
    /\ Len(scan_result[1].val) >= 1
    /\ \E p \in Range(popped) : FsNode(fs, p).st = "list_err"
    /\ \E p \in FsPaths(fs) : AncestorsOk(p) /\ FsNode(fs, p).st = "meta_err"

\* ---------------------------------------------------------------- C18
\* C18 as stated: when the loop has ended every directory entry handed to
\* classify_dir_items was pushed once and popped once, and every entry
\* handed to it is either an item or a directory to scan, never both.
C18_EveryEntryClassified ==
    (ScanDone /\ scan_result[1].ok) =>
        \A p \in FsPaths(fs) :
            (AncestorsOk(p) /\ FsNode(fs, p).st # "entry_err") =>
                /\ FsNode(fs, p).kind = "dir" =>
                      (Occurrences(pushed, p) = 1 /\ Occurrences(popped, p) = 1)
                /\ (p \in Range(items)) # (p \in Range(pushed))

\* C18 as amended: the loop ends on every finite tree; every directory
\* entry whose metadata can be read is pushed once, when its parent is
\* listed, and popped once; every entry whose metadata can be read is
\* either an item or a directory to scan, never both; an entry whose
\* metadata cannot be read is neither; the loop is left only when
\* unscanned_dirs is empty.
C18_WorklistTerminates ==
    /\ <>(scan_pc = "done")
    /\ [](/\ \A p \in Range(pushed) : Occurrences(pushed, p) = 1
          /\ \A p \in Range(popped) : Occurrences(popped, p) = 1
          /\ Range(popped) \subseteq Range(pushed)
          /\ Range(unscanned_dirs) = Range(pushed) \ Range(popped)
          /\ Range(items) \cap Range(pushed) = {}
          /\ Range(items) \subseteq SeenFiles
          /\ Range(pushed) \subseteq SeenDirs
          /\ (ScanDone /\ scan_result[1].ok) =>
                /\ Range(pushed) = SeenDirs
                /\ Range(popped) = SeenDirs
                /\ Range(items) = SeenFiles)
    /\ [][/\ (scan_pc = "loop" /\ scan_pc' = "done") => unscanned_dirs = <<>>
          /\ \A p \in Range(pushed') \ Range(pushed) :
                Len(p) = 1 \/ (popped' = Append(popped, Parent(p)))]_vars

C18_Witness ==
    /\ ScanDone
    /\ scan_result[1].ok
    /\ Len(popped) >= 2
    /\ \E p \in Range(popped) : Len(p) >= 2
    /\ Len(items) >= 1

\* ---------------------------------------------------------------- C19
\* C19: every result passed to the callback is in the channel or has been
\* received, once and in the order passed: none is dropped, duplicated or
\* reordered.
C19_NoEventLost == received \o chan = passed

====
